---- MODULE Spec2Model ----
(***************************************************************************)
(* Epic-Dungeon-Crawler: the grid core of the game.                        *)
(*   - astar            (game/pathfinding.py)                              *)
(*   - Dungeon.generate (game/world/dungeon.py), its room placement,       *)
(*     corridor carving, connectivity repair, doors, and the constructor   *)
(*     that wraps it                                                        *)
(*   - Dungeon.compute_fov / has_line_of_sight (game/world/dungeon.py)     *)
(* Coordinates are pairs <<x, y>>.  A Python list indexed from 0 is a      *)
(* sequence indexed from 1: grid[y][x] of the source is grid[y + 1][x + 1].*)
(***************************************************************************)
EXTENDS Integers, Sequences, FiniteSets, TLC

VARIABLES
    \* ---- astar call (pathfinding.py) ----
    a_grid,      \* the walkable mask handed to astar: rows of booleans
    a_start,     \* start argument
    a_goal,      \* goal argument
    a_pc,        \* "call" before the call, "returned" after it
    a_result     \* what the call produced

VARIABLES
    \* ---- Dungeon (world/dungeon.py) ----
    self_width,          \* self.width
    self_height,         \* self.height
    self_grid,           \* self.grid: rows of tiles [type, explored, visible]
    self_rooms,          \* self.rooms: list of Room records
    self_stairs_down,    \* self.stairs_down, a pair or None
    self_player_start,   \* self.player_start, a pair or None
    g_pc,           \* where the constructor / generate stands
    attempt,        \* the loop counter of `for _ in range(max_attempts)`
    rooms_created,  \* the local rooms_created of the running generate call
    depth,          \* how many generate calls are nested on the stack
    extra_done,     \* iterations done of the extra-connection loop
    room_min_size,  \* the arguments of generate
    room_max_size,
    seeds,          \* which seeds of the random source are considered
    self_level,     \* self.level, the level argument of the constructor
    repair_connections,  \* connect_rooms calls made by the while loop of
                         \* the running ensure_connectivity
    \* ---- Enemy (enemy.py) ----
    enemies,        \* dungeon.enemies: list of [x, y, alive, path]
    player,         \* (player.x, player.y)
    e_walkable,     \* the mask the last calculate_path_to_player built, or <<>>
    e_self,         \* the index in dungeon.enemies of the enemy that last acted
    e_pc,           \* "idle", or "planned" after calculate_path_to_player
    \* ---- coordinate queries on a Dungeon ----
    q_op,           \* the query last made, or "none"
    q_args,         \* its arguments
    q_result,       \* what it returned
    \* ---- Dungeon.compute_fov calls ----
    player_x,       \* the arguments of the last compute_fov call
    player_y,
    radius,
    visible_tiles,  \* the set the last call returned
    f_pc,           \* "idle", or how the last call ended: "returned", "raised"
    fov_calls       \* compute_fov calls made so far

a_vars == <<a_grid, a_start, a_goal, a_pc, a_result>>

d_vars == <<self_width, self_height, self_grid, self_rooms, self_stairs_down,
            self_player_start, g_pc, attempt, rooms_created, depth, extra_done>>

f_vars == <<player_x, player_y, radius, visible_tiles, f_pc, fov_calls>>

p_vars == <<room_min_size, room_max_size, seeds, self_level>>

r_vars == <<repair_connections>>

e_vars == <<enemies, player, e_walkable, e_self, e_pc>>

q_vars == <<q_op, q_args, q_result>>

vars == <<a_vars, d_vars, f_vars, p_vars, r_vars, e_vars, q_vars>>

None == "None"

(***************************************************************************)
(* Small helpers                                                           *)
(***************************************************************************)
Abs(n) == IF n < 0 THEN -n ELSE n

Min2(a, b) == IF a < b THEN a ELSE b

Max2(a, b) == IF a > b THEN a ELSE b

\* dict[k] = v on a Python dict modelled as a function
Put(f, k, v) == [x \in (DOMAIN f) \cup {k} |-> IF x = k THEN v ELSE f[x]]

Reverse(s) == [i \in 1..Len(s) |-> s[Len(s) + 1 - i]]

(***************************************************************************)
(* pathfinding.py                                                          *)
(***************************************************************************)
\* Bounds of the masks the astar specification draws
MaskWidth == 3
MaskHeight == 5
MaxBlocked == 2

heuristic(a, b) == Abs(a[1] - b[1]) + Abs(a[2] - b[2])

\* directions = [(0, -1), (1, 0), (0, 1), (-1, 0)]
directions == << <<0, -1>>, <<1, 0>>, <<0, 1>>, <<-1, 0>> >>

grid_height_of(grid) == Len(grid)

grid_width_of(grid) == IF Len(grid) > 0 THEN Len(grid[1]) ELSE 0

\* 0 <= p[0] < grid_width and 0 <= p[1] < grid_height
in_mask(grid, p) ==
    /\ 0 <= p[1] /\ p[1] < grid_width_of(grid)
    /\ 0 <= p[2] /\ p[2] < grid_height_of(grid)

\* grid[p[1]][p[0]]
mask_at(grid, p) == grid[p[2] + 1][p[1] + 1]

\* Python's ordering of the heap entries (f, (x, y)): by f, then x, then y
entry_less(a, b) ==
    \/ a[1] < b[1]
    \/ /\ a[1] = b[1]
       /\ \/ a[2][1] < b[2][1]
          \/ (a[2][1] = b[2][1] /\ a[2][2] < b[2][2])

\* heapq.heappop: the smallest entry.  The heap never holds a node twice
\* (line 93) so it is a set of distinct entries.
heappop(open_set) ==
    CHOOSE e \in open_set : \A o \in open_set : o = e \/ entry_less(e, o)

\* [n for _, n in open_set]
open_nodes(open_set) == {e[2] : e \in open_set}

\* the while loop of lines 61-63
RECURSIVE walk_back(_, _)
walk_back(came_from, current) ==
    IF current \in DOMAIN came_from
    THEN <<current>> \o walk_back(came_from, came_from[current])
    ELSE <<current>>

\* A variant of reconstruct_path that forgets path.reverse().
reconstruct_path_unreversed(came_from, current) == walk_back(came_from, current)

\* lines 60-64: the walk back along came_from, then path.reverse()
reconstruct_path(came_from, current) == Reverse(walk_back(came_from, current))

\* A variant of skip_neighbor that forgets the walkability test.
skip_neighbor_walls_ignored(grid, neighbor, closed_set) ==
    neighbor \in closed_set

\* not grid[neighbor[1]][neighbor[0]] or neighbor in closed_set  (line 79)
skip_neighbor(grid, neighbor, closed_set) ==
    ~mask_at(grid, neighbor) \/ neighbor \in closed_set

\* One pass of the body of `for dx, dy in directions` (lines 71-94) for
\* direction number i, on the search state st.
relax_neighbor(grid, goal, st, current, i) ==
    LET neighbor == <<current[1] + directions[i][1], current[2] + directions[i][2]>>
    IN  IF ~in_mask(grid, neighbor) THEN st
        ELSE IF skip_neighbor(grid, neighbor, st.closed_set) THEN st
        ELSE LET tentative_g_score == st.g_score[current] + 1
             IN  IF neighbor \notin DOMAIN st.g_score
                    \/ tentative_g_score < st.g_score[neighbor]
                 THEN LET f == tentative_g_score + heuristic(neighbor, goal)
                      IN [st EXCEPT
                            !.came_from = Put(st.came_from, neighbor, current),
                            !.g_score = Put(st.g_score, neighbor, tentative_g_score),
                            !.f_score = Put(st.f_score, neighbor, f),
                            !.open_set =
                                IF neighbor \notin open_nodes(st.open_set)
                                THEN st.open_set \cup {<<f, neighbor>>}
                                ELSE st.open_set,
                            !.pushed =
                                IF neighbor \notin open_nodes(st.open_set)
                                THEN Append(st.pushed, neighbor)
                                ELSE st.pushed]
                 ELSE st

RECURSIVE relax_all(_, _, _, _, _)
relax_all(grid, goal, st, current, i) ==
    IF i > Len(directions) THEN st
    ELSE relax_all(grid, goal, relax_neighbor(grid, goal, st, current, i),
                   current, i + 1)

\* closed_set.add(current)  (line 68)
mark_processed(closed_set, current) == closed_set \cup {current}

\* The while loop of lines 53-97.  `fuel` caps the number of iterations the
\* model follows; a loop that outlives it is reported as "diverged".  Beside
\* the path, the result carries the history of the heap: `pushed`, the nodes
\* in the order heappush received them, and `pops`, for every heappop the
\* entry it returned and the heap it was taken from.
RECURSIVE search_loop(_, _, _, _)
search_loop(grid, goal, st, fuel) ==
    IF st.open_set = {}
    THEN [outcome |-> "return", path |-> <<>>, pushed |-> st.pushed, pops |-> st.pops]
    ELSE IF fuel = 0
    THEN [outcome |-> "diverged", path |-> <<>>, pushed |-> st.pushed, pops |-> st.pops]
    ELSE LET e == heappop(st.open_set)
             current == e[2]
             pops == Append(st.pops, [entry |-> e, open_set |-> st.open_set])
         IN  IF current = goal
             THEN [outcome |-> "return",
                   path |-> reconstruct_path(st.came_from, current),
                   pushed |-> st.pushed, pops |-> pops]
             ELSE LET popped == [st EXCEPT
                                   !.open_set = st.open_set \ {e},
                                   !.closed_set = mark_processed(st.closed_set, current),
                                   !.pops = pops]
                  IN search_loop(grid, goal,
                                 relax_all(grid, goal, popped, current, 1),
                                 fuel - 1)

\* A variant of entry_checks that tests the goal's walkability before it
\* tests start == goal.
entry_checks_walkable_first(grid, start, goal) ==
    IF ~in_mask(grid, start) \/ ~in_mask(grid, goal)
    THEN [returns |-> TRUE, path |-> <<>>]
    ELSE IF ~mask_at(grid, goal)
    THEN [returns |-> TRUE, path |-> <<>>]
    ELSE IF start = goal
    THEN [returns |-> TRUE, path |-> <<start>>]
    ELSE [returns |-> FALSE, path |-> <<>>]

\* A variant of entry_checks that forgets the bounds test of start.
entry_checks_start_unchecked(grid, start, goal) ==
    IF ~in_mask(grid, goal)
    THEN [returns |-> TRUE, path |-> <<>>]
    ELSE IF start = goal
    THEN [returns |-> TRUE, path |-> <<start>>]
    ELSE IF ~mask_at(grid, goal)
    THEN [returns |-> TRUE, path |-> <<>>]
    ELSE [returns |-> FALSE, path |-> <<>>]

\* The early returns of lines 21-34, in the order the code takes them.
entry_checks(grid, start, goal) ==
    IF ~in_mask(grid, start) \/ ~in_mask(grid, goal)
    THEN [returns |-> TRUE, path |-> <<>>]
    ELSE IF start = goal
    THEN [returns |-> TRUE, path |-> <<start>>]
    ELSE IF ~mask_at(grid, goal)
    THEN [returns |-> TRUE, path |-> <<>>]
    ELSE [returns |-> FALSE, path |-> <<>>]

\* astar(grid, start, goal), lines 8-97
astar(grid, start, goal) ==
    LET early == entry_checks(grid, start, goal)
    IN  IF early.returns
    THEN [outcome |-> "return", path |-> early.path, pushed |-> <<>>, pops |-> <<>>]
    ELSE search_loop(grid, goal,
                     [open_set |-> {<<heuristic(start, goal), start>>},
                      closed_set |-> {},
                      pushed |-> <<start>>,
                      pops |-> <<>>,
                      g_score |-> (start :> 0),
                      f_score |-> (start :> heuristic(start, goal)),
                      came_from |-> <<>>],
                     grid_width_of(grid) * grid_height_of(grid) + 1)

(***************************************************************************)
(* The astar specification: every mask of MaskWidth x MaskHeight with at   *)
(* most MaxBlocked non-walkable cells, every goal in the grid or just      *)
(* outside one of its edges, every start on the first row or outside.      *)
(***************************************************************************)
MaskCells == (0..(MaskWidth - 1)) \X (0..(MaskHeight - 1))

\* One point beyond each of the four edges: each fails one comparison of
\* the bounds test.
MaskOutside ==
    {<<-1, 0>>, <<MaskWidth, 0>>, <<0, -1>>, <<0, MaskHeight>>}

MaskPoints == MaskCells \cup MaskOutside

\* The starts drawn: the cells of the first row, and the outside points
MaskStarts == {c \in MaskCells : c[2] = 0} \cup MaskOutside

RECURSIVE SubsetsUpTo(_, _)
SubsetsUpTo(S, k) ==
    IF k = 0 THEN {{}}
    ELSE LET T == SubsetsUpTo(S, k - 1)
         IN T \cup {t \cup {c} : t \in T, c \in S}

MaskOf(blocked) ==
    [row \in 1..MaskHeight |->
        [col \in 1..MaskWidth |-> <<col - 1, row - 1>> \notin blocked]]

\* The dungeon variables of a specification that builds no dungeon
NoDungeon ==
    /\ self_width = 0
    /\ self_height = 0
    /\ self_grid = <<>>
    /\ self_rooms = <<>>
    /\ self_stairs_down = None
    /\ self_player_start = None
    /\ g_pc = "idle"
    /\ attempt = 0
    /\ rooms_created = 0
    /\ depth = 0
    /\ extra_done = 0
    /\ repair_connections = 0
    /\ room_min_size = 0
    /\ room_max_size = 0
    /\ seeds = "any"
    /\ self_level = 1

\* No enemy has acted
NoEnemies ==
    /\ enemies = <<>>
    /\ player = <<0, 0>>
    /\ e_walkable = <<>>
    /\ e_self = 0
    /\ e_pc = "idle"

\* No query was made
NoQuery ==
    /\ q_op = "none"
    /\ q_args = <<>>
    /\ q_result = FALSE

\* The field-of-view variables before any compute_fov call
NoFov ==
    /\ player_x = 0
    /\ player_y = 0
    /\ radius = 0
    /\ visible_tiles = {}
    /\ f_pc = "idle"
    /\ fov_calls = 0

InitAstar ==
    /\ NoDungeon
    /\ NoFov
    /\ NoEnemies
    /\ NoQuery
    /\ a_grid \in {MaskOf(b) : b \in SubsetsUpTo(MaskCells, MaxBlocked)}
    /\ a_start \in MaskStarts
    /\ a_goal \in MaskPoints
    /\ a_pc = "call"
    /\ a_result = [outcome |-> "none", path |-> <<>>]

CallAstar ==
    /\ a_pc = "call"
    /\ a_result' = astar(a_grid, a_start, a_goal)
    /\ a_pc' = "returned"
    /\ UNCHANGED <<a_grid, a_start, a_goal>>
    /\ UNCHANGED <<d_vars, f_vars, p_vars, r_vars, e_vars, q_vars>>

NextAstar == CallAstar

SpecAstar == InitAstar /\ [][NextAstar]_vars

(***************************************************************************)
(* tile.py                                                                 *)
(***************************************************************************)
\* TileType
WALL == 0
FLOOR == 1
WATER == 2
LAVA == 3
DOOR == 4
STAIRS_DOWN == 5
STAIRS_UP == 6

\* Tile(type): a fresh tile, not explored, not visible.  The cosmetic
\* `variant` and the unused `entity` fields are left out.
Tile(type) == [type |-> type, explored |-> FALSE, visible |-> FALSE]

\* A variant of is_walkable that accepts Floor only.
is_walkable_floor_only(tile) == tile.type = FLOOR

\* Tile.is_walkable
is_walkable(tile) == tile.type \in {FLOOR, DOOR, STAIRS_DOWN, STAIRS_UP}

\* Tile.is_transparent
is_transparent(tile) == tile.type # WALL

(***************************************************************************)
(* world/dungeon.py: Room                                                  *)
(***************************************************************************)
\* Room(x, y, width, height)
Room(x, y, w, h) ==
    [x |-> x, y |-> y, width |-> w, height |-> h,
     room_type |-> "normal", connected |-> FALSE]

\* Room.center
center(room) == <<room.x + (room.width \div 2), room.y + (room.height \div 2)>>

\* A variant of overlaps that ignores the buffer.
overlaps_without_buffer(room, other, buffer) ==
    /\ room.x < other.x + other.width
    /\ room.x + room.width > other.x
    /\ room.y < other.y + other.height
    /\ room.y + room.height > other.y

\* Room.overlaps
overlaps(room, other, buffer) ==
    /\ room.x < other.x + other.width + buffer
    /\ room.x + room.width + buffer > other.x
    /\ room.y < other.y + other.height + buffer
    /\ room.y + room.height + buffer > other.y

(***************************************************************************)
(* world/dungeon.py: Dungeon.generate and what it calls                    *)
(***************************************************************************)
\* min_rooms = 5 in generate
min_rooms == 5

\* The parameters of the dungeons the generator specification builds
GenWidth == 12
GenHeight == 4
RoomMinSize == 1
RoomMaxSize == 1

\* max_rooms: the smallest room budget that can satisfy min_rooms
max_rooms == min_rooms

\* max_attempts = max_rooms * 5
max_attempts == max_rooms * 5

\* How many nested generate calls the interpreter's stack holds before the
\* next call raises RecursionError
RecursionLimit == 2

\* [[Tile(type) for _ in range(width)] for _ in range(height)]
filled_grid(w, h, type) == [row \in 1..h |-> [col \in 1..w |-> Tile(type)]]

\* grid[y][x] = Tile(type)
set_tile(g, x, y, type) == [g EXCEPT ![y + 1][x + 1] = Tile(type)]

\* grid[y][x] for the cells of a set = Tile(type)
set_tiles(g, cells, type) ==
    [row \in 1..Len(g) |->
        [col \in 1..Len(g[row]) |->
            IF <<col - 1, row - 1>> \in cells THEN Tile(type) ELSE g[row][col]]]

tile_at(g, x, y) == g[y + 1][x + 1]

\* add_room: carve the rectangle; the caller appends the room
room_cells(room) ==
    {<<x, y>> : x \in room.x..(room.x + room.width - 1),
                y \in room.y..(room.y + room.height - 1)}

\* create_h_tunnel(x1, x2, y)
h_tunnel(x1, x2, y) == {<<x, y>> : x \in Min2(x1, x2)..Max2(x1, x2)}

\* A variant of v_tunnel that starts at the top row.
v_tunnel_from_top(y1, y2, x) == {<<x, y>> : y \in 0..Max2(y1, y2)}

\* create_v_tunnel(y1, y2, x)
v_tunnel(y1, y2, x) == {<<x, y>> : y \in Min2(y1, y2)..Max2(y1, y2)}

\* A variant of corridor_cells that stops the second leg short of the corner.
corridor_cells_broken(c1, c2, horizontal_first) ==
    IF horizontal_first
    THEN h_tunnel(c1[1], c2[1], c1[2])
    ELSE v_tunnel(c1[2], c2[2], c1[1])

\* The cells connect_rooms carves between centers c1 and c2 (lines 349-354)
corridor_cells(c1, c2, horizontal_first) ==
    IF horizontal_first
    THEN h_tunnel(c1[1], c2[1], c1[2]) \cup v_tunnel(c1[2], c2[2], c2[1])
    ELSE v_tunnel(c1[2], c2[2], c1[1]) \cup h_tunnel(c1[1], c2[1], c2[2])

\* connect_rooms(rooms[i], rooms[j]): the grid after carving
connect_grid(g, rs, i, j, horizontal_first) ==
    set_tiles(g, corridor_cells(center(rs[i]), center(rs[j]), horizontal_first), FLOOR)

\* connect_rooms(rooms[i], rooms[j]): the rooms after marking both connected
connect_flags(rs, i, j) ==
    [k \in 1..Len(rs) |->
        IF k = i \/ k = j THEN [rs[k] EXCEPT !.connected = TRUE] ELSE rs[k]]

\* (cx2 - cx1)**2 + (cy2 - cy1)**2: the square of the distance of line 401;
\* the square root is monotone, so the comparisons of line 403 are the same
distance2(r1, r2) ==
    LET c1 == center(r1)
        c2 == center(r2)
    IN (c2[1] - c1[1]) * (c2[1] - c1[1]) + (c2[2] - c1[2]) * (c2[2] - c1[2])

\* A variant of closest_pair that takes the first pair the nested loops visit.
closest_pair_first_visited(rs) ==
    LET conn == {i \in 1..Len(rs) : rs[i].connected}
        unconn == {j \in 1..Len(rs) : ~rs[j].connected}
        pairs == conn \X unconn
    IN CHOOSE p \in pairs :
         \A q \in pairs : p[1] < q[1] \/ (p[1] = q[1] /\ p[2] <= q[2])

\* closest_pair of lines 393-405: the nested loops keep the first pair that
\* is strictly closer than everything before it
closest_pair(rs) ==
    LET conn == {i \in 1..Len(rs) : rs[i].connected}
        unconn == {j \in 1..Len(rs) : ~rs[j].connected}
        pairs == conn \X unconn
    IN CHOOSE p \in pairs :
         \A q \in pairs :
            \/ distance2(rs[p[1]], rs[p[2]]) < distance2(rs[q[1]], rs[q[2]])
            \/ /\ distance2(rs[p[1]], rs[p[2]]) = distance2(rs[q[1]], rs[q[2]])
               /\ (p[1] < q[1] \/ (p[1] = q[1] /\ p[2] <= q[2]))

\* A variant of all_connected that is satisfied by one connected room.
all_connected_any(rs) == \E i \in 1..Len(rs) : rs[i].connected

\* all(room.connected for room in self.rooms)  (line 381)
all_connected(rs) == \A i \in 1..Len(rs) : rs[i].connected

\* extra_connections = max(1, len(self.rooms) // 10)
extra_connections(rs) == Max2(1, Len(rs) \div 10)

\* The tiles around (x, y) of kind WALL among the offsets given
wall_count(g, x, y, offsets) ==
    Cardinality({o \in offsets : tile_at(g, x + o[1], y + o[2]).type = WALL})

orthogonal == {<<0, -1>>, <<1, 0>>, <<0, 1>>, <<-1, 0>>}

diagonal == {<<1, 1>>, <<-1, 1>>, <<1, -1>>, <<-1, -1>>}

\* A variant of door_candidates that accepts two or more orthogonal walls.
door_candidates_two_or_more(g, w, h) ==
    {c \in (1..(w - 2)) \X (1..(h - 2)) :
        /\ tile_at(g, c[1], c[2]).type = FLOOR
        /\ wall_count(g, c[1], c[2], orthogonal) >= 2
        /\ wall_count(g, c[1], c[2], diagonal) >= 2}

\* A variant of door_candidates that does not look at the tile's own kind.
door_candidates_on_any_kind(g, w, h) ==
    {c \in (1..(w - 2)) \X (1..(h - 2)) :
        /\ wall_count(g, c[1], c[2], orthogonal) = 2
        /\ wall_count(g, c[1], c[2], diagonal) >= 2}

\* add_doors: the cells a door may be put on (lines 425-438); whether one is
\* put there is the draw random.random() < 0.2
door_candidates(g, w, h) ==
    {c \in (1..(w - 2)) \X (1..(h - 2)) :
        /\ tile_at(g, c[1], c[2]).type = FLOOR
        /\ wall_count(g, c[1], c[2], orthogonal) = 2
        /\ wall_count(g, c[1], c[2], diagonal) >= 2}

\* How many of the door draws of one add_doors pass the model lets succeed
MaxDoors == 1

\* The state the except branch of __init__ leaves (lines 116-130)
Fallback ==
    /\ self_rooms' = <<>>
    /\ self_grid' = filled_grid(self_width, self_height, WALL)
    /\ self_stairs_down' = <<self_width \div 2, self_height \div 2>>
    /\ self_player_start' = <<self_width \div 2, self_height \div 2>>
    /\ g_pc' = "fallback"
    /\ UNCHANGED <<self_width, self_height, attempt, rooms_created, depth, extra_done>>

\* The widths the generator specification draws: GenWidth, where five rooms
\* fit; a grid four columns narrower, where they cannot; and a grid so narrow
\* that no room fits
GenWidths == {RoomMaxSize + 2, GenWidth - 4, GenWidth}

\* __init__ up to the call of generate, and the first lines of generate
InitGen ==
    /\ self_width \in GenWidths
    /\ self_height = GenHeight
    /\ self_grid = filled_grid(self_width, self_height, WALL)
    /\ self_rooms = <<>>
    /\ self_stairs_down = None
    /\ self_player_start = None
    /\ g_pc = "place"
    /\ attempt = 0
    /\ rooms_created = 0
    /\ depth = 1
    /\ extra_done = 0
    /\ repair_connections = 0
    /\ room_min_size = RoomMinSize
    /\ room_max_size = RoomMaxSize
    /\ seeds = "any"
    /\ self_level = 1
    /\ a_grid = <<>>
    /\ a_start = <<0, 0>>
    /\ a_goal = <<0, 0>>
    /\ a_pc = "idle"
    /\ a_result = [outcome |-> "none", path |-> <<>>]
    /\ NoFov
    /\ NoEnemies
    /\ NoQuery

\* What random.randint(room_min_size, room_max_size) of line 287 can return
\* in the generate call nested d deep.  Under "wide_first" only the seeds are
\* considered that draw the largest width throughout the first call and the
\* smallest throughout the later ones.
drawn_widths(d) ==
    IF seeds = "any" THEN room_min_size..room_max_size
    ELSE IF d = 1 THEN {room_max_size} ELSE {room_min_size}

\* A variant of drawn_xs whose range starts at the edge column.
drawn_xs_from_edge(d, w) == 0..(self_width - w - 2)

\* What random.randint(1, self.width - w - 2) of line 289 can return; under
\* "wide_first" the first call draws the leftmost position every time; under
\* "in_order" every draw is the position next to the room placed last, one
\* tile apart
drawn_xs(d, w) ==
    IF seeds = "in_order"
    THEN {1 + rooms_created * (w + 1)} \cap (1..(self_width - w - 2))
    ELSE IF seeds = "any" \/ d > 1 THEN 1..(self_width - w - 2)
    ELSE {1} \cap (1..(self_width - w - 2))

\* The loop of lines 282-303 still runs
Placing ==
    /\ g_pc = "place"
    /\ attempt < max_attempts
    /\ rooms_created < max_rooms

\* One iteration of the placement loop whose four draws succeed
TryRoom ==
    /\ Placing
    /\ \E w \in drawn_widths(depth), h \in room_min_size..room_max_size :
       \E x \in drawn_xs(depth, w), y \in 1..(self_height - h - 2) :
          LET new_room == Room(x, y, w, h)
          IN  IF \E k \in 1..Len(self_rooms) : overlaps(new_room, self_rooms[k], 1)
              THEN UNCHANGED <<self_grid, self_rooms, rooms_created>>
              ELSE LET carved == set_tiles(self_grid, room_cells(new_room), FLOOR)
                       rs == Append(self_rooms, new_room)
                   IN  /\ rooms_created' = rooms_created + 1
                       /\ IF Len(rs) > 1
                          THEN \E prev \in 1..(Len(rs) - 1), hf \in BOOLEAN :
                                  /\ self_grid' = connect_grid(carved, rs, Len(rs), prev, hf)
                                  /\ self_rooms' = connect_flags(rs, Len(rs), prev)
                          ELSE /\ self_grid' = carved
                               /\ self_rooms' = rs
    /\ attempt' = attempt + 1
    /\ UNCHANGED <<self_width, self_height, self_stairs_down, self_player_start,
                   g_pc, depth, extra_done>>
    /\ UNCHANGED <<a_vars, f_vars, p_vars, r_vars, e_vars, q_vars>>

\* One iteration of the placement loop in which random.randint is given an
\* empty range (lines 289-290): ValueError, caught by __init__
TryRoomRaises ==
    /\ Placing
    /\ \E w \in drawn_widths(depth), h \in room_min_size..room_max_size :
          self_width - w - 2 < 1 \/ self_height - h - 2 < 1
    /\ Fallback
    /\ UNCHANGED <<a_vars, f_vars, p_vars, r_vars, e_vars, q_vars>>

\* The loop is over (lines 282-284)
LoopOver ==
    /\ g_pc = "place"
    /\ (attempt >= max_attempts \/ rooms_created >= max_rooms)

\* Lines 306-308: too few rooms, generate calls itself; the callee starts by
\* replacing the grid (line 274)
Retry ==
    /\ LoopOver
    /\ Len(self_rooms) < min_rooms
    /\ depth < RecursionLimit
    /\ depth' = depth + 1
    /\ self_grid' = filled_grid(self_width, self_height, WALL)
    /\ attempt' = 0
    /\ rooms_created' = 0
    /\ UNCHANGED <<self_width, self_height, self_rooms, self_stairs_down,
                   self_player_start, g_pc, extra_done>>
    /\ UNCHANGED <<a_vars, f_vars, p_vars, r_vars, e_vars, q_vars>>

\* Lines 306-308 with the stack full: RecursionError, caught by __init__
RetryOverflows ==
    /\ LoopOver
    /\ Len(self_rooms) < min_rooms
    /\ depth >= RecursionLimit
    /\ Fallback
    /\ UNCHANGED <<a_vars, f_vars, p_vars, r_vars, e_vars, q_vars>>

\* Lines 311 and 372-378: enough rooms; ensure_connectivity starts
StartRepair ==
    /\ LoopOver
    /\ Len(self_rooms) >= min_rooms
    /\ self_rooms' = [k \in 1..Len(self_rooms) |->
                        [self_rooms[k] EXCEPT !.connected = (k = 1)]]
    /\ g_pc' = "repair"
    /\ repair_connections' = 0
    /\ UNCHANGED <<self_width, self_height, self_grid, self_stairs_down,
                   self_player_start, attempt, rooms_created, depth, extra_done>>
    /\ UNCHANGED <<a_vars, f_vars, p_vars, e_vars, q_vars>>

\* One iteration of the while loop of lines 381-412
RepairStep ==
    /\ g_pc = "repair"
    /\ ~all_connected(self_rooms)
    /\ \E p \in {closest_pair(self_rooms)}, hf \in BOOLEAN :
          /\ self_grid' = connect_grid(self_grid, self_rooms, p[1], p[2], hf)
          /\ self_rooms' = connect_flags(self_rooms, p[1], p[2])
    /\ repair_connections' = repair_connections + 1
    /\ UNCHANGED <<self_width, self_height, self_stairs_down, self_player_start,
                   g_pc, attempt, rooms_created, depth, extra_done>>
    /\ UNCHANGED <<a_vars, f_vars, p_vars, e_vars, q_vars>>

\* The while loop ends (line 381)
RepairDone ==
    /\ g_pc = "repair"
    /\ all_connected(self_rooms)
    /\ g_pc' = "extra"
    /\ extra_done' = 0
    /\ UNCHANGED <<self_width, self_height, self_grid, self_rooms, self_stairs_down,
                   self_player_start, attempt, rooms_created, depth>>
    /\ UNCHANGED <<a_vars, f_vars, p_vars, r_vars, e_vars, q_vars>>

\* One iteration of the loop of lines 416-420
ExtraConnection ==
    /\ g_pc = "extra"
    /\ extra_done < extra_connections(self_rooms)
    /\ \E i \in 1..Len(self_rooms), j \in 1..Len(self_rooms) :
          IF i # j
          THEN \E hf \in BOOLEAN :
                  /\ self_grid' = connect_grid(self_grid, self_rooms, i, j, hf)
                  /\ self_rooms' = connect_flags(self_rooms, i, j)
          ELSE UNCHANGED <<self_grid, self_rooms>>
    /\ extra_done' = extra_done + 1
    /\ UNCHANGED <<self_width, self_height, self_stairs_down, self_player_start,
                   g_pc, attempt, rooms_created, depth>>
    /\ UNCHANGED <<a_vars, f_vars, p_vars, r_vars, e_vars, q_vars>>

\* Lines 313-329: entrance, exit and stairs, then add_doors.  The floor
\* variants of add_floor_variants change no field the model keeps.
FinishLayout ==
    /\ g_pc = "extra"
    /\ extra_done >= extra_connections(self_rooms)
    /\ LET n == Len(self_rooms)
           exit == center(self_rooms[n])
           typed == [k \in 1..n |->
                       IF k = n /\ n > 1
                       THEN [self_rooms[k] EXCEPT !.room_type = "exit"]
                       ELSE IF k = 1
                       THEN [self_rooms[k] EXCEPT !.room_type = "entrance"]
                       ELSE self_rooms[k]]
           staired == IF n > 1
                      THEN set_tile(self_grid, exit[1], exit[2], STAIRS_DOWN)
                      ELSE self_grid
       IN  /\ self_rooms' = typed
           /\ self_player_start' = center(self_rooms[1])
           /\ self_stairs_down' = IF n > 1 THEN exit ELSE self_stairs_down
           /\ \E doors \in SubsetsUpTo(door_candidates(staired, self_width, self_height),
                                       MaxDoors) :
                 self_grid' = set_tiles(staired, doors, DOOR)
    /\ g_pc' = "entities"
    /\ UNCHANGED <<self_width, self_height, attempt, rooms_created, depth, extra_done>>
    /\ UNCHANGED <<a_vars, f_vars, p_vars, r_vars, e_vars, q_vars>>

\* Room.random_position(edge_buffer) has a position to draw (lines 43-44)
can_place_in(room, edge_buffer) ==
    /\ room.x + edge_buffer <= room.x + room.width - 1 - edge_buffer
    /\ room.y + edge_buffer <= room.y + room.height - 1 - edge_buffer

\* Dungeon.determine_biome: the biome of the highest threshold <= level
determine_biome(level) ==
    IF level >= 25 THEN "CRYSTAL"
    ELSE IF level >= 20 THEN "SHADOW"
    ELSE IF level >= 15 THEN "LAVA"
    ELSE IF level >= 10 THEN "ICE"
    ELSE IF level >= 5 THEN "FOREST"
    ELSE "CAVERN"

\* The keys of the enemy_types table of place_entities (lines 466-472)
enemy_types_keys == {"CAVERN", "FOREST", "ICE", "LAVA", "SHADOW"}

\* len(enemy_types.get(self.biome, ["goblin"])), line 475
biome_enemies_len(biome) == IF biome \in enemy_types_keys THEN 3 ELSE 1

\* Placing one enemy raises (lines 463-480): no position to draw in the
\* room, or biome_enemies[1] and [2] are read from a list of one
enemy_raises(room, biome) ==
    ~can_place_in(room, 1) \/ biome_enemies_len(biome) < 3

\* The rooms the quest item can go to: self.rooms[1:-1] (line 509)
quest_rooms(rs) == {k \in 1..Len(rs) : 1 < k /\ k < Len(rs)}

\* Some draws make place_entities raise: an enemy is drawn for a room of
\* rooms[1:] and placing it raises, an item is drawn for a room with no
\* position to draw, or the quest item of a level divisible by 5 has no room
\* or is sent to a room with no position two tiles from its edge
place_entities_may_raise(rs, level) ==
    \/ \E k \in 2..Len(rs) : enemy_raises(rs[k], determine_biome(level))
    \/ \E k \in 1..Len(rs) : ~can_place_in(rs[k], 1)
    \/ /\ level % 5 = 0
       /\ \/ quest_rooms(rs) = {}
          \/ \E k \in quest_rooms(rs) : ~can_place_in(rs[k], 2)

\* Some draws make place_entities return: no enemy and no item is drawn, or
\* those drawn can be placed, and the quest item, if the level has one, is
\* sent to a room that has a position for it.  A weapon or armor is drawn
\* for every room once 0.15 * level / 5 reaches 1 (line 495).
place_entities_may_return(rs, level) ==
    /\ 3 * level >= 100 => \A k \in 1..Len(rs) : can_place_in(rs[k], 1)
    /\ level % 5 = 0 => \E k \in quest_rooms(rs) : can_place_in(rs[k], 2)

\* place_entities returns: every draw it made had a position to draw.  How
\* many enemies and items it places is drawn at random, and it may place none.
EntitiesPlaced ==
    /\ g_pc = "entities"
    /\ place_entities_may_return(self_rooms, self_level)
    /\ g_pc' = "done"
    /\ UNCHANGED <<self_width, self_height, self_grid, self_rooms, self_stairs_down,
                   self_player_start, attempt, rooms_created, depth, extra_done>>
    /\ UNCHANGED <<a_vars, f_vars, p_vars, r_vars, e_vars, q_vars>>

\* place_entities raises: random.randint is given an empty range
\* (ValueError), or a list is indexed past its end (IndexError); __init__
\* catches either
EntitiesRaise ==
    /\ g_pc = "entities"
    /\ place_entities_may_raise(self_rooms, self_level)
    /\ Fallback
    /\ UNCHANGED <<a_vars, f_vars, p_vars, r_vars, e_vars, q_vars>>

NextGen ==
    \/ TryRoom
    \/ TryRoomRaises
    \/ Retry
    \/ RetryOverflows
    \/ StartRepair
    \/ RepairStep
    \/ RepairDone
    \/ ExtraConnection
    \/ FinishLayout
    \/ EntitiesPlaced
    \/ EntitiesRaise

SpecGen == InitGen /\ [][NextGen]_vars

\* The while loop of ensure_connectivity is a loop of one running program:
\* whenever an iteration or the exit of the loop is possible it is taken.
SpecGenFair == SpecGen /\ WF_vars(RepairStep) /\ WF_vars(RepairDone)

(***************************************************************************)
(* The levels specification: the same constructor called with each level   *)
(* up to MaxLevel, on a grid where min_rooms rooms LevelsRoomSize on a     *)
(* side fit next to one another, under the seeds that draw them in that    *)
(* order.  A room of that size has a position for every entity             *)
(* place_entities draws, the quest item included.                          *)
(***************************************************************************)
MaxLevel == 30
LevelsRoomSize == 5
LevelsWidth == min_rooms * (LevelsRoomSize + 1) + 2
LevelsHeight == LevelsRoomSize + 3

InitLevels ==
    /\ self_width = LevelsWidth
    /\ self_height = LevelsHeight
    /\ self_grid = filled_grid(self_width, self_height, WALL)
    /\ self_rooms = <<>>
    /\ self_stairs_down = None
    /\ self_player_start = None
    /\ g_pc = "place"
    /\ attempt = 0
    /\ rooms_created = 0
    /\ depth = 1
    /\ extra_done = 0
    /\ repair_connections = 0
    /\ room_min_size = LevelsRoomSize
    /\ room_max_size = LevelsRoomSize
    /\ seeds = "in_order"
    /\ self_level \in 1..MaxLevel
    /\ a_grid = <<>>
    /\ a_start = <<0, 0>>
    /\ a_goal = <<0, 0>>
    /\ a_pc = "idle"
    /\ a_result = [outcome |-> "none", path |-> <<>>]
    /\ NoFov
    /\ NoEnemies
    /\ NoQuery

\* The steps of the constructor that these arguments and seeds allow: every
\* draw has a non-empty range and the first generate call places max_rooms
\* rooms, so that no draw raises and generate never calls itself
NextLevels ==
    \/ TryRoom
    \/ StartRepair
    \/ RepairStep
    \/ RepairDone
    \/ ExtraConnection
    \/ FinishLayout
    \/ EntitiesPlaced
    \/ EntitiesRaise

SpecLevels == InitLevels /\ [][NextLevels]_vars

(***************************************************************************)
(* The retry specification: the same constructor on a strip RetryWidth     *)
(* wide where rooms are 1 or 2 tiles long, under the seeds that make the   *)
(* first generate call draw the same 2-wide room at the left edge in every *)
(* iteration, so that it ends with one room and generate calls itself.     *)
(***************************************************************************)
RetryWidth == 15

InitRetry ==
    /\ self_width = RetryWidth
    /\ self_height = GenHeight
    /\ self_grid = filled_grid(self_width, self_height, WALL)
    /\ self_rooms = <<>>
    /\ self_stairs_down = None
    /\ self_player_start = None
    /\ g_pc = "place"
    /\ attempt = 0
    /\ rooms_created = 0
    /\ depth = 1
    /\ extra_done = 0
    /\ repair_connections = 0
    /\ room_min_size = RoomMinSize
    /\ room_max_size = RoomMinSize + 1
    /\ seeds = "wide_first"
    /\ self_level = 1
    /\ a_grid = <<>>
    /\ a_start = <<0, 0>>
    /\ a_goal = <<0, 0>>
    /\ a_pc = "idle"
    /\ a_result = [outcome |-> "none", path |-> <<>>]
    /\ NoFov
    /\ NoEnemies
    /\ NoQuery

SpecRetry == InitRetry /\ [][NextGen]_vars

(***************************************************************************)
(* world/dungeon.py: Dungeon.compute_fov and has_line_of_sight             *)
(***************************************************************************)
\* Bounds of the floors and calls the field-of-view specification draws
FovWidth == 5
FovHeight == 3
MaxWalls == 1
MaxRadius == 5
MaxFovCalls == 2

\* The loop of lines 552-564 from the current cell <<x0, y0>> with error
\* term err; dx, dy, sx, sy are the values of lines 546-549.
RECURSIVE los_walk(_, _, _, _, _, _, _, _, _, _, _, _)
los_walk(g, w, h, x0, y0, x1, y1, dx, dy, sx, sy, err) ==
    IF x0 = x1 /\ y0 = y1 THEN TRUE
    ELSE IF /\ 0 <= x0 /\ x0 < w /\ 0 <= y0 /\ y0 < h
            /\ ~is_transparent(tile_at(g, x0, y0))
    THEN FALSE
    ELSE LET e2 == 2 * err
             stepx == e2 > -dy
             stepy == e2 < dx
         IN los_walk(g, w, h,
                     IF stepx THEN x0 + sx ELSE x0,
                     IF stepy THEN y0 + sy ELSE y0,
                     x1, y1, dx, dy, sx, sy,
                     (IF stepx THEN err - dy ELSE err) + (IF stepy THEN dx ELSE 0))

\* A variant of has_line_of_sight that sees through everything.
has_line_of_sight_unblocked(g, w, h, x0, y0, x1, y1) == TRUE

\* A variant of has_line_of_sight in which an opaque target hides itself.
has_line_of_sight_opaque_target(g, w, h, x0, y0, x1, y1) ==
    /\ los_walk(g, w, h, x0, y0, x1, y1, Abs(x1 - x0), Abs(y1 - y0),
                IF x0 < x1 THEN 1 ELSE -1, IF y0 < y1 THEN 1 ELSE -1,
                Abs(x1 - x0) - Abs(y1 - y0))
    /\ \/ (x0 = x1 /\ y0 = y1)
       \/ is_transparent(tile_at(g, x1, y1))

\* Dungeon.has_line_of_sight
has_line_of_sight(g, w, h, x0, y0, x1, y1) ==
    LET dx == Abs(x1 - x0)
        dy == Abs(y1 - y0)
        sx == IF x0 < x1 THEN 1 ELSE -1
        sy == IF y0 < y1 THEN 1 ELSE -1
    IN los_walk(g, w, h, x0, y0, x1, y1, dx, dy, sx, sy, dx - dy)

\* A list of length n takes the indices -n .. n-1; a negative one counts
\* from the end, anything else raises IndexError
index_ok(i, n) == -n <= i /\ i < n

py_index(i, n) == IF i < 0 THEN i + n ELSE i

\* A variant of reset_visibility that also forgets what was explored.
reset_visibility_and_explored(g) ==
    [row \in 1..Len(g) |->
        [col \in 1..Len(g[row]) |->
            [g[row][col] EXCEPT !.visible = FALSE, !.explored = FALSE]]]

\* Lines 517-519: visible = False on every tile
reset_visibility(g) ==
    [row \in 1..Len(g) |->
        [col \in 1..Len(g[row]) |-> [g[row][col] EXCEPT !.visible = FALSE]]]

\* A variant of seen_cells that keeps the whole square scan.
seen_cells_in_square(g, w, h, px, py, r) ==
    {c \in (Max2(0, px - r)..(Min2(w, px + r + 1) - 1))
            \X (Max2(0, py - r)..(Min2(h, py + r + 1) - 1)) :
        has_line_of_sight(g, w, h, px, py, c[1], c[2])}

\* Lines 530-540: the cells of the square scan that pass the circular
\* cutoff and the line-of-sight test.  sqrt(d2) > radius is d2 > radius^2
\* for the radii >= 0 drawn here.
seen_cells(g, w, h, px, py, r) ==
    {c \in (Max2(0, px - r)..(Min2(w, px + r + 1) - 1))
            \X (Max2(0, py - r)..(Min2(h, py + r + 1) - 1)) :
        /\ ~((c[1] - px) * (c[1] - px) + (c[2] - py) * (c[2] - py) > r * r)
        /\ has_line_of_sight(g, w, h, px, py, c[1], c[2])}

\* visible = True and explored = True on the cells given
mark_seen(g, cells) ==
    [row \in 1..Len(g) |->
        [col \in 1..Len(g[row]) |->
            IF <<col - 1, row - 1>> \in cells
            THEN [g[row][col] EXCEPT !.visible = TRUE, !.explored = TRUE]
            ELSE g[row][col]]]

\* Dungeon.compute_fov(player_x, player_y, radius): how it ends, the grid it
\* leaves and the set it returns
compute_fov(g, w, h, px, py, r) ==
    LET cleared == reset_visibility(g)
    IN  IF ~index_ok(py, h) \/ ~index_ok(px, w)
        THEN [outcome |-> "raised", grid |-> cleared, visible_tiles |-> {}]
        ELSE LET own == <<py_index(px, w), py_index(py, h)>>
                 seen == seen_cells(cleared, w, h, px, py, r)
             IN [outcome |-> "returned",
                 grid |-> mark_seen(cleared, seen \cup {own}),
                 visible_tiles |-> seen \cup {<<px, py>>}]

(***************************************************************************)
(* The field-of-view specification: a fixed floor of FovWidth x FovHeight  *)
(* Floor tiles with at most MaxWalls Wall tiles, and up to MaxFovCalls     *)
(* calls of compute_fov from any cell, or from just outside an edge, with  *)
(* any radius up to MaxRadius.                                             *)
(***************************************************************************)
FovCells == (0..(FovWidth - 1)) \X (0..(FovHeight - 1))

FovOutside == {<<-1, 0>>, <<FovWidth, 0>>, <<0, -1>>, <<0, FovHeight>>}

FloorOf(walls) ==
    [row \in 1..FovHeight |->
        [col \in 1..FovWidth |->
            Tile(IF <<col - 1, row - 1>> \in walls THEN WALL ELSE FLOOR)]]

InitFov ==
    /\ self_width = FovWidth
    /\ self_height = FovHeight
    /\ self_grid \in {FloorOf(ws) : ws \in SubsetsUpTo(FovCells, MaxWalls)}
    /\ self_rooms = <<>>
    /\ self_stairs_down = None
    /\ self_player_start = None
    /\ g_pc = "done"
    /\ attempt = 0
    /\ rooms_created = 0
    /\ depth = 0
    /\ extra_done = 0
    /\ repair_connections = 0
    /\ room_min_size = 0
    /\ room_max_size = 0
    /\ seeds = "any"
    /\ self_level = 1
    /\ NoFov
    /\ NoEnemies
    /\ NoQuery
    /\ a_grid = <<>>
    /\ a_start = <<0, 0>>
    /\ a_goal = <<0, 0>>
    /\ a_pc = "idle"
    /\ a_result = [outcome |-> "none", path |-> <<>>]

ComputeFov ==
    /\ fov_calls < MaxFovCalls
    /\ \E p \in FovCells \cup FovOutside, r \in 0..MaxRadius :
          \E res \in {compute_fov(self_grid, self_width, self_height, p[1], p[2], r)} :
             /\ player_x' = p[1]
             /\ player_y' = p[2]
             /\ radius' = r
             /\ self_grid' = res.grid
             /\ visible_tiles' = res.visible_tiles
             /\ f_pc' = res.outcome
    /\ fov_calls' = fov_calls + 1
    /\ UNCHANGED <<self_width, self_height, self_rooms, self_stairs_down,
                   self_player_start, g_pc, attempt, rooms_created, depth, extra_done>>
    /\ UNCHANGED <<a_vars, p_vars, r_vars, e_vars, q_vars>>

NextFov == ComputeFov

SpecFov == InitFov /\ [][NextFov]_vars

(***************************************************************************)
(* world/dungeon.py: the coordinate queries is_position_valid and          *)
(* has_line_of_sight, called directly with any pair of integers            *)
(***************************************************************************)
\* Dungeon.is_position_valid: the bounds tests come first, so the grid is
\* indexed with cells inside it only
is_position_valid(g, w, h, x, y) ==
    /\ 0 <= x /\ x < w
    /\ 0 <= y /\ y < h
    /\ is_walkable(tile_at(g, x, y))

\* The cells the loop of has_line_of_sight stands on before it returns
RECURSIVE los_trail(_, _, _, _, _, _, _, _, _, _, _, _)
los_trail(g, w, h, x0, y0, x1, y1, dx, dy, sx, sy, err) ==
    IF x0 = x1 /\ y0 = y1 THEN {}
    ELSE IF /\ 0 <= x0 /\ x0 < w /\ 0 <= y0 /\ y0 < h
            /\ ~is_transparent(tile_at(g, x0, y0))
    THEN {<<x0, y0>>}
    ELSE LET e2 == 2 * err
             stepx == e2 > -dy
             stepy == e2 < dx
         IN {<<x0, y0>>} \cup
            los_trail(g, w, h,
                      IF stepx THEN x0 + sx ELSE x0,
                      IF stepy THEN y0 + sy ELSE y0,
                      x1, y1, dx, dy, sx, sy,
                      (IF stepx THEN err - dy ELSE err) + (IF stepy THEN dx ELSE 0))

\* The floors and points of the query specification: the floors and observer
\* positions of the field-of-view specification
InitQuery ==
    /\ self_width = FovWidth
    /\ self_height = FovHeight
    /\ self_grid \in {FloorOf(ws) : ws \in SubsetsUpTo(FovCells, MaxWalls)}
    /\ self_rooms = <<>>
    /\ self_stairs_down = None
    /\ self_player_start = None
    /\ g_pc = "done"
    /\ attempt = 0
    /\ rooms_created = 0
    /\ depth = 0
    /\ extra_done = 0
    /\ repair_connections = 0
    /\ room_min_size = 0
    /\ room_max_size = 0
    /\ seeds = "any"
    /\ self_level = 1
    /\ NoFov
    /\ NoEnemies
    /\ NoQuery
    /\ a_grid = <<>>
    /\ a_start = <<0, 0>>
    /\ a_goal = <<0, 0>>
    /\ a_pc = "idle"
    /\ a_result = [outcome |-> "none", path |-> <<>>]

IsPositionValid ==
    /\ \E p \in FovCells \cup FovOutside :
          /\ q_op' = "is_position_valid"
          /\ q_args' = p
          /\ q_result' = is_position_valid(self_grid, self_width, self_height, p[1], p[2])
    /\ UNCHANGED <<a_vars, d_vars, f_vars, p_vars, r_vars, e_vars>>

HasLineOfSight ==
    /\ \E p0 \in FovCells \cup FovOutside, p1 \in FovCells \cup FovOutside :
          /\ q_op' = "has_line_of_sight"
          /\ q_args' = <<p0, p1>>
          /\ q_result' = has_line_of_sight(self_grid, self_width, self_height,
                                           p0[1], p0[2], p1[1], p1[2])
    /\ UNCHANGED <<a_vars, d_vars, f_vars, p_vars, r_vars, e_vars>>

NextQuery ==
    \/ IsPositionValid
    \/ HasLineOfSight

SpecQuery == InitQuery /\ [][NextQuery]_vars

(***************************************************************************)
(* enemy.py: Enemy.calculate_path_to_player                                *)
(***************************************************************************)
\* The floors of the enemy specification: EnemyGridWidth x EnemyGridHeight
\* Floor tiles of which at most MaxOtherTiles are of another kind, with
\* EnemyCount enemies
EnemyGridWidth == 3
EnemyGridHeight == 2
MaxOtherTiles == 1
EnemyCount == 2

\* settings.py: the grid size main.py builds every Dungeon with
GRID_WIDTH == EnemyGridWidth

GRID_HEIGHT == EnemyGridHeight

\* Entity.distance_to
distance_to(a, b) == Abs(a[1] - b[1]) + Abs(a[2] - b[2])

\* Entity.is_adjacent_to
is_adjacent_to(a, b) == distance_to(a, b) <= 1

\* Line 117: the value the mask takes from the tile alone,
\* dungeon.grid[y][x].type == 1
tile_mask(tile) == tile.type = 1

\* Lines 117-123: the mask enemy number i builds
enemy_walkable(g, es, i) ==
    [row \in 1..GRID_HEIGHT |->
        [col \in 1..GRID_WIDTH |->
            /\ tile_mask(g[row][col])
            /\ ~\E j \in 1..Len(es) :
                  /\ j # i
                  /\ es[j].alive
                  /\ 0 <= es[j].y /\ es[j].y < GRID_HEIGHT
                  /\ 0 <= es[j].x /\ es[j].x < GRID_WIDTH
                  /\ es[j].x = col - 1
                  /\ es[j].y = row - 1]]

\* Lines 129-131: the path without its first node
path_tail(path) == IF Len(path) > 1 THEN SubSeq(path, 2, Len(path)) ELSE <<>>

\* Enemy.calculate_path_to_player: the mask it built (<<>> if none) and the
\* path it returns
calculate_path_to_player(g, es, i, pl) ==
    LET start == <<es[i].x, es[i].y>>
    IN  IF is_adjacent_to(start, pl)
        THEN [walkable |-> <<>>, path |-> <<>>]
        ELSE LET walkable == enemy_walkable(g, es, i)
             IN [walkable |-> walkable, path |-> path_tail(astar(walkable, start, pl).path)]

EnemyCells == (0..(EnemyGridWidth - 1)) \X (0..(EnemyGridHeight - 1))

TileKinds == {WALL, FLOOR, WATER, LAVA, DOOR, STAIRS_DOWN, STAIRS_UP}

\* The floor with the kinds given on the cells of DOMAIN other, Floor elsewhere
EnemyFloor(other) ==
    [row \in 1..EnemyGridHeight |->
        [col \in 1..EnemyGridWidth |->
            Tile(IF <<col - 1, row - 1>> \in DOMAIN other
                 THEN other[<<col - 1, row - 1>>] ELSE FLOOR)]]

EnemyFloors ==
    {EnemyFloor(other) : other \in UNION {[cs -> TileKinds \ {FLOOR}] :
                                           cs \in SubsetsUpTo(EnemyCells, MaxOtherTiles)}}

\* Entities stand on walkable tiles: place_entities draws cells of rooms, and
\* every move is onto a walkable tile
InitEnemy ==
    /\ self_width = GRID_WIDTH
    /\ self_height = GRID_HEIGHT
    /\ self_grid \in EnemyFloors
    /\ self_rooms = <<>>
    /\ self_stairs_down = None
    /\ self_player_start = None
    /\ g_pc = "done"
    /\ attempt = 0
    /\ rooms_created = 0
    /\ depth = 0
    /\ extra_done = 0
    /\ repair_connections = 0
    /\ room_min_size = 0
    /\ room_max_size = 0
    /\ seeds = "any"
    /\ self_level = 1
    /\ NoFov
    /\ NoQuery
    /\ a_grid = <<>>
    /\ a_start = <<0, 0>>
    /\ a_goal = <<0, 0>>
    /\ a_pc = "idle"
    /\ a_result = [outcome |-> "none", path |-> <<>>]
    /\ enemies \in [1..EnemyCount ->
                      {[x |-> c[1], y |-> c[2], alive |-> al, path |-> <<>>] :
                          c \in EnemyCells, al \in BOOLEAN}]
    /\ \A k \in 1..EnemyCount :
          is_walkable(tile_at(self_grid, enemies[k].x, enemies[k].y))
    /\ player \in {c \in EnemyCells : is_walkable(tile_at(self_grid, c[1], c[2]))}
    /\ e_walkable = <<>>
    /\ e_self = 0
    /\ e_pc = "idle"

\* A variant of is_valid_move that does not look at the other enemies.
is_valid_move_through_enemies(g, es, i, x, y) ==
    /\ 0 <= x /\ x < GRID_WIDTH /\ 0 <= y /\ y < GRID_HEIGHT
    /\ g[y + 1][x + 1].type = 1

\* Enemy.is_valid_move for enemy number i (lines 187-202)
is_valid_move(g, es, i, x, y) ==
    /\ 0 <= x /\ x < GRID_WIDTH /\ 0 <= y /\ y < GRID_HEIGHT
    /\ g[y + 1][x + 1].type = 1
    /\ ~\E j \in 1..Len(es) :
          j # i /\ es[j].alive /\ es[j].x = x /\ es[j].y = y

\* Enemy.follow_path for enemy number i, whose path is `path` (lines
\* 133-158): the enemy afterwards.  The direction it faces is not kept.
follow_path(g, es, i, path) ==
    IF path = <<>> THEN [es[i] EXCEPT !.path = path]
    ELSE IF is_valid_move(g, es, i, path[1][1], path[1][2])
    THEN [es[i] EXCEPT !.x = path[1][1], !.y = path[1][2], !.path = Tail(path)]
    ELSE [es[i] EXCEPT !.path = <<>>]

\* update of a living enemy that holds no path (lines 90-96): it plans its
\* route and, if there is one, takes its first step at once.  The cooldown
\* is a matter of time and is taken to have run out.
CalculatePath ==
    /\ \E i \in 1..Len(enemies) :
          /\ enemies[i].alive
          /\ enemies[i].path = <<>>
          /\ \E res \in {calculate_path_to_player(self_grid, enemies, i, player)} :
                /\ enemies' = [enemies EXCEPT
                                 ![i] = follow_path(self_grid, enemies, i, res.path)]
                /\ e_walkable' = res.walkable
          /\ e_self' = i
    /\ e_pc' = "planned"
    /\ UNCHANGED player
    /\ UNCHANGED <<a_vars, d_vars, f_vars, p_vars, r_vars, q_vars>>

\* update of a living enemy that holds a path (lines 94-96): follow_path
FollowPath ==
    /\ \E i \in 1..Len(enemies) :
          /\ enemies[i].alive
          /\ enemies[i].path # <<>>
          /\ enemies' = [enemies EXCEPT
                           ![i] = follow_path(self_grid, enemies, i, enemies[i].path)]
          /\ e_self' = i
    /\ e_pc' = "followed"
    /\ UNCHANGED <<player, e_walkable>>
    /\ UNCHANGED <<a_vars, d_vars, f_vars, p_vars, r_vars, q_vars>>

NextEnemy ==
    \/ CalculatePath
    \/ FollowPath

SpecEnemy == InitEnemy /\ [][NextEnemy]_vars

(***************************************************************************)
(* tile.py: the two predicates of a Tile, asked of the tiles of a row, and *)
(* the construction of a tile with the default arguments                   *)
(***************************************************************************)
\* The length of the rows of tiles the tile specification draws
TileRowLength == 3

\* Tile(): type defaults to TileType.WALL (line 17)
DefaultTile == Tile(WALL)

InitTile ==
    /\ self_width = TileRowLength
    /\ self_height = 1
    /\ self_grid \in {<<row>> : row \in [1..TileRowLength -> {Tile(k) : k \in TileKinds}]}
    /\ self_rooms = <<>>
    /\ self_stairs_down = None
    /\ self_player_start = None
    /\ g_pc = "done"
    /\ attempt = 0
    /\ rooms_created = 0
    /\ depth = 0
    /\ extra_done = 0
    /\ repair_connections = 0
    /\ room_min_size = 0
    /\ room_max_size = 0
    /\ seeds = "any"
    /\ self_level = 1
    /\ NoFov
    /\ NoEnemies
    /\ NoQuery
    /\ a_grid = <<>>
    /\ a_start = <<0, 0>>
    /\ a_goal = <<0, 0>>
    /\ a_pc = "idle"
    /\ a_result = [outcome |-> "none", path |-> <<>>]

\* tile.is_walkable() on the tile at column x
TileIsWalkable ==
    /\ \E x \in 0..(self_width - 1) :
          /\ q_op' = "is_walkable"
          /\ q_args' = tile_at(self_grid, x, 0)
          /\ q_result' = is_walkable(tile_at(self_grid, x, 0))
    /\ UNCHANGED <<a_vars, d_vars, f_vars, p_vars, r_vars, e_vars>>

\* tile.is_transparent() on the tile at column x
TileIsTransparent ==
    /\ \E x \in 0..(self_width - 1) :
          /\ q_op' = "is_transparent"
          /\ q_args' = tile_at(self_grid, x, 0)
          /\ q_result' = is_transparent(tile_at(self_grid, x, 0))
    /\ UNCHANGED <<a_vars, d_vars, f_vars, p_vars, r_vars, e_vars>>

\* grid[0][x] = Tile(): a tile built with the default arguments replaces the
\* one at column x
TileConstruct ==
    /\ \E x \in 0..(self_width - 1) :
          /\ self_grid' = [self_grid EXCEPT ![1][x + 1] = DefaultTile]
          /\ q_op' = "Tile"
          /\ q_args' = tile_at(self_grid', x, 0)
          /\ q_result' = FALSE
    /\ UNCHANGED <<self_width, self_height, self_rooms, self_stairs_down,
                   self_player_start, g_pc, attempt, rooms_created, depth, extra_done>>
    /\ UNCHANGED <<a_vars, f_vars, p_vars, r_vars, e_vars>>

NextTile ==
    \/ TileIsWalkable
    \/ TileIsTransparent
    \/ TileConstruct

SpecTile == InitTile /\ [][NextTile]_vars

(***************************************************************************)
(* Reference notions for the astar claims                                  *)
(***************************************************************************)
\* The cells one orthogonal step from c that are in the mask and walkable
WalkableSteps(grid, c) ==
    {n \in {<<c[1] + directions[i][1], c[2] + directions[i][2]>> : i \in 1..4} :
        in_mask(grid, n) /\ mask_at(grid, n)}

\* Breadth-first search: the least number of steps from the frontier (at
\* depth d) to goal, or -1 when no route exists.
RECURSIVE BfsSteps(_, _, _, _, _)
BfsSteps(grid, frontier, seen, goal, d) ==
    IF goal \in frontier THEN d
    ELSE LET next == (UNION {WalkableSteps(grid, c) : c \in frontier}) \ seen
         IN  IF next = {} THEN -1
             ELSE BfsSteps(grid, next, seen \cup next, goal, d + 1)

ShortestSteps(grid, start, goal) == BfsSteps(grid, {start}, {start}, goal, 0)

\* start and goal are cells of the mask, goal is walkable, and a 4-connected
\* walkable route joins them
Connected(grid, start, goal) ==
    /\ in_mask(grid, start)
    /\ in_mask(grid, goal)
    /\ mask_at(grid, goal)
    /\ ShortestSteps(grid, start, goal) >= 0

Returned == a_pc = "returned"

PathSet(path) == {path[i] : i \in 1..Len(path)}

\* C2 (as claimed): for a connected in-bounds start and walkable goal the
\* returned path has exactly the breadth-first shortest number of steps.
C2_PathIsShortest ==
    (Returned /\ Connected(a_grid, a_start, a_goal))
        => Len(a_result.path) - 1 = ShortestSteps(a_grid, a_start, a_goal)

\* C6 (as claimed): start out of bounds, goal out of bounds or goal not
\* walkable makes astar return the empty list, also when start = goal.
C6_InvalidEndpointsGiveEmpty ==
    (Returned /\ (\/ ~in_mask(a_grid, a_start)
                  \/ ~in_mask(a_grid, a_goal)
                  \/ ~mask_at(a_grid, a_goal)))
        => a_result.path = <<>>

\* C6 (amended): start or goal out of bounds gives the empty list; a goal
\* that is not walkable gives the empty list when start differs from goal.
\* With start = goal in bounds the answer is [start] even on a cell that is
\* not walkable.
C6_InvalidEndpointsGiveEmptyUnlessSame ==
    /\ (Returned /\ (~in_mask(a_grid, a_start) \/ ~in_mask(a_grid, a_goal)))
            => (a_result.outcome = "return" /\ a_result.path = <<>>)
    /\ (Returned /\ in_mask(a_grid, a_start) /\ in_mask(a_grid, a_goal)
            /\ ~mask_at(a_grid, a_goal))
            => /\ a_result.outcome = "return"
               /\ a_result.path = IF a_start = a_goal THEN <<a_start>> ELSE <<>>

C6_Witness ==
    /\ Returned
    /\ in_mask(a_grid, a_start)
    /\ a_start = a_goal
    /\ ~mask_at(a_grid, a_goal)
    /\ a_result.path = <<a_start>>

\* Every orthogonal neighbour of c is outside the mask or not walkable
Enclosed(grid, c) == WalkableSteps(grid, c) = {}

\* C7: with start different from goal and no walkable route from start to
\* goal (in particular a goal whose four neighbours are all blocked or out
\* of bounds), the search loop ends and astar returns the empty list.
C7_UnreachableGivesEmpty ==
    (Returned /\ a_start # a_goal /\ ~Connected(a_grid, a_start, a_goal))
        => (a_result.outcome = "return" /\ a_result.path = <<>>)

C7_Witness ==
    /\ Returned
    /\ a_start # a_goal
    /\ in_mask(a_grid, a_start) /\ mask_at(a_grid, a_start)
    /\ in_mask(a_grid, a_goal) /\ mask_at(a_grid, a_goal)
    /\ Enclosed(a_grid, a_goal)
    /\ a_result.outcome = "return"
    /\ a_result.path = <<>>

\* C8: a non-empty returned path starts at start, ends at goal, moves one
\* orthogonal step at a time, repeats no cell, stays inside the mask, and
\* every cell after the first is walkable.
C8_PathWellFormed ==
    (Returned /\ a_result.path # <<>>) =>
        LET path == a_result.path
        IN  /\ a_result.outcome = "return"
            /\ path[1] = a_start
            /\ path[Len(path)] = a_goal
            /\ \A i \in 1..(Len(path) - 1) : heuristic(path[i], path[i + 1]) = 1
            /\ \A i, j \in 1..Len(path) : i # j => path[i] # path[j]
            /\ \A i \in 1..Len(path) : in_mask(a_grid, path[i])
            /\ \A i \in 2..Len(path) : mask_at(a_grid, path[i])

C8_Witness ==
    /\ Returned
    /\ Len(a_result.path) >= 4
    /\ \E i \in 2..(Len(a_result.path) - 1) :
          a_result.path[i][1] # a_start[1] /\ a_result.path[i][2] # a_start[2]

\* C9: start = goal inside the mask gives the one-element path [start].
C9_SameCellGivesSingleton ==
    (Returned /\ a_start = a_goal /\ in_mask(a_grid, a_start))
        => (a_result.outcome = "return" /\ a_result.path = <<a_start>>)

C9_Witness ==
    /\ Returned
    /\ a_start = a_goal
    /\ in_mask(a_grid, a_start)
    /\ mask_at(a_grid, a_start)
    /\ a_result.path = <<a_start>>

(***************************************************************************)
(* Claims about the generator                                              *)
(***************************************************************************)
\* The mask of Tile.is_walkable over a tile grid
WalkableMask(g) ==
    [row \in 1..Len(g) |-> [col \in 1..Len(g[row]) |-> is_walkable(g[row][col])]]

\* generate has returned to __init__ without raising
Generated == g_pc = "done"

\* __init__ has returned to its caller, normally (it has no other way out)
ConstructorReturned == g_pc \in {"done", "fallback"}

\* The cells a 4-connected walkable route joins to the cells of `seen`
RECURSIVE ReachableFrom(_, _, _)
ReachableFrom(mask, frontier, seen) ==
    LET next == (UNION {WalkableSteps(mask, c) : c \in frontier}) \ seen
    IN IF next = {} THEN seen ELSE ReachableFrom(mask, next, seen \cup next)

\* C1: in every generated dungeon the centers of any two rooms of the room
\* list are joined by a 4-connected route of walkable tiles, and astar on the
\* walkability mask returns a non-empty path between them.
C1_RoomCentersConnected ==
    Generated =>
        \A mask \in {WalkableMask(self_grid)} :
            LET centers == {center(self_rooms[k]) : k \in 1..Len(self_rooms)}
                first == center(self_rooms[1])
            IN  /\ \A c \in centers : mask_at(mask, c)
                /\ centers \subseteq ReachableFrom(mask, {first}, {first})
                /\ \A c1, c2 \in centers :
                      c1 # c2 => astar(mask, c1, c2).path # <<>>

\* A generated dungeon whose first placement attempt fell short and was
\* retried, so that the room list still holds rooms of the abandoned attempt
C1_Witness ==
    /\ Generated
    /\ Len(self_rooms) >= min_rooms
    /\ depth > 1
    /\ Len(self_rooms) > rooms_created

\* Some row or some column lies strictly between the two rooms
Separated(r1, r2) ==
    \/ r1.x + r1.width < r2.x
    \/ r2.x + r2.width < r1.x
    \/ r1.y + r1.height < r2.y
    \/ r2.y + r2.height < r1.y

\* C3: no two rooms of the room list overlap, even grown by one tile: a row
\* or a column of tiles of neither lies between them.  It holds of the list
\* at every point of generate, and so of the final list, whatever number of
\* retries happened.
C3_RoomsKeepBuffer ==
    \A i, j \in 1..Len(self_rooms) :
        i # j => Separated(self_rooms[i], self_rooms[j])

\* A generated dungeon with two rooms exactly one column apart, after a retry
C3_Witness ==
    /\ Generated
    /\ depth > 1
    /\ \E i, j \in 1..Len(self_rooms) :
          self_rooms[i].x + self_rooms[i].width + 1 = self_rooms[j].x

\* Rooms at least room_min_size wide and high that keep the buffer have their
\* corners in distinct blocks of (room_min_size + 1) squared positions, so no
\* more rooms fit than there are blocks.
BlocksAlong(positions) == (positions + room_min_size) \div (room_min_size + 1)

RoomsThatFitAtMost(w, h) ==
    IF w - room_min_size - 2 < 1 \/ h - room_min_size - 2 < 1 THEN 0
    ELSE BlocksAlong(w - room_min_size - 2) * BlocksAlong(h - room_min_size - 2)

ParamsImpossible == RoomsThatFitAtMost(self_width, self_height) < min_rooms

\* C10 (as claimed): with parameters that cannot hold five rooms the failure
\* reaches the caller as an error: the constructor never returns normally
\* with an empty room list.
C10_FailureIsReported ==
    ~(ParamsImpossible /\ ConstructorReturned /\ self_rooms = <<>>)

(***************************************************************************)
(* Claims about the field of view                                          *)
(***************************************************************************)
ExploredCells(g) ==
    {c \in (0..(self_width - 1)) \X (0..(self_height - 1)) :
        tile_at(g, c[1], c[2]).explored}

VisibleCells(g) ==
    {c \in (0..(self_width - 1)) \X (0..(self_height - 1)) :
        tile_at(g, c[1], c[2]).visible}

\* C4: no compute_fov call, whatever its observer and radius and however it
\* ends, takes a tile out of the explored set.
C4_ExploredOnlyGrows ==
    [][ExploredCells(self_grid) \subseteq ExploredCells(self_grid')]_vars

\* A second call has run from another position, something explored earlier
\* is no longer visible, and it is still explored
C4_Witness ==
    /\ fov_calls >= 2
    /\ f_pc = "returned"
    /\ ExploredCells(self_grid) \ VisibleCells(self_grid) # {}

\* w is a lattice point of the straight segment from o to t, other than its
\* two ends
StrictlyBetween(o, w, t) ==
    /\ w # o
    /\ w # t
    /\ (w[1] - o[1]) * (t[2] - o[2]) = (w[2] - o[2]) * (t[1] - o[1])
    /\ Min2(o[1], t[1]) <= w[1] /\ w[1] <= Max2(o[1], t[1])
    /\ Min2(o[2], t[2]) <= w[2] /\ w[2] <= Max2(o[2], t[2])

Cells == (0..(self_width - 1)) \X (0..(self_height - 1))

Observer == <<player_x, player_y>>

\* The targets hidden from observer o by a Wall on the straight segment
HiddenBehindWall(g, o) ==
    {t \in Cells : \E w \in Cells :
        /\ tile_at(g, w[1], w[2]).type = WALL
        /\ StrictlyBetween(o, w, t)}

\* C5: after compute_fov from an observer cell, a target with a Wall cell
\* strictly between the observer and it on the straight segment is not in
\* the returned set and is not marked visible, whatever the radius.
C5_NothingVisibleBehindWall ==
    (f_pc = "returned" /\ Observer \in Cells) =>
        \A t \in HiddenBehindWall(self_grid, Observer) :
            /\ t \notin visible_tiles
            /\ ~tile_at(self_grid, t[1], t[2]).visible

\* A call whose radius reaches a cell hidden by a wall two knight-steps away
C5_Witness ==
    /\ f_pc = "returned"
    /\ Observer \in Cells
    /\ \E t \in HiddenBehindWall(self_grid, Observer) :
          /\ (t[1] - player_x) * (t[1] - player_x)
                + (t[2] - player_y) * (t[2] - player_y) <= radius * radius
          /\ Abs(t[1] - player_x) = 4
          /\ Abs(t[2] - player_y) = 2
          /\ t \notin visible_tiles

(***************************************************************************)
(* Claims about retries                                                    *)
(***************************************************************************)
\* C11 (as claimed): the room list of a finished dungeon holds only rooms of
\* the final attempt, so every cell of every listed room is a non-Wall tile
\* of the final grid.
C11_ListedRoomsAreCarved ==
    Generated =>
        /\ Len(self_rooms) = rooms_created
        /\ \A k \in 1..Len(self_rooms) : \A c \in room_cells(self_rooms[k]) :
              tile_at(self_grid, c[1], c[2]).type # WALL

\* C12 (as claimed): a finished dungeon has at least min_rooms and at most
\* max_rooms rooms in its list.
C12_RoomCountInRange ==
    Generated =>
        /\ Len(self_rooms) >= min_rooms
        /\ Len(self_rooms) <= max_rooms

(***************************************************************************)
(* More claims about the field of view                                     *)
(***************************************************************************)
\* The floor with the same tile kinds and every flag cleared
Unseen(g) ==
    [row \in 1..Len(g) |-> [col \in 1..Len(g[row]) |-> Tile(g[row][col].type)]]

\* C13 (as claimed): after every compute_fov call that returns, the tiles
\* flagged visible are exactly the members of the returned set, and the
\* returned set is the one the same call returns on the floor with every
\* flag cleared.
C13_VisibleIsTheReturnedSet ==
    f_pc = "returned" =>
        /\ VisibleCells(self_grid) = visible_tiles
        /\ visible_tiles = compute_fov(Unseen(self_grid), self_width, self_height,
                                       player_x, player_y, radius).visible_tiles

\* The squared Euclidean distance of cell c from the observer
Distance2(c) ==
    (c[1] - player_x) * (c[1] - player_x) + (c[2] - player_y) * (c[2] - player_y)

\* C14: for an observer inside the grid the returned set holds the
\* observer's cell, and every member is a cell of the grid at Euclidean
\* distance at most radius from the observer.
C14_ReturnedSetWithinRadius ==
    (f_pc = "returned" /\ Observer \in Cells) =>
        /\ Observer \in visible_tiles
        /\ \A c \in visible_tiles : c \in Cells /\ Distance2(c) <= radius * radius

\* A call that sees further than its neighbours, on a floor with a cell in
\* plain sight that the radius cuts off
C14_Witness ==
    /\ f_pc = "returned"
    /\ Observer \in Cells
    /\ radius >= 2
    /\ \E c \in visible_tiles : Distance2(c) = radius * radius
    /\ \E c \in Cells :
          /\ Distance2(c) > radius * radius
          /\ Abs(c[1] - player_x) <= radius
          /\ Abs(c[2] - player_y) <= radius
          /\ has_line_of_sight(self_grid, self_width, self_height,
                               player_x, player_y, c[1], c[2])
          /\ c \notin visible_tiles

\* The cell of the grid nearest to the observer
Clamped(o) ==
    <<Max2(0, Min2(self_width - 1, o[1])), Max2(0, Min2(self_height - 1, o[2]))>>

\* C15 (as claimed): a compute_fov call with the observer outside the grid
\* does not raise; the returned set holds the observer's clamped cell, and
\* the tiles marked visible are the ones the call from the clamped cell marks.
C15_OutsideObserverIsClamped ==
    (f_pc # "idle" /\ Observer \notin Cells) =>
        /\ f_pc = "returned"
        /\ Clamped(Observer) \in visible_tiles
        /\ VisibleCells(self_grid) =
              compute_fov(Unseen(self_grid), self_width, self_height,
                          Clamped(Observer)[1], Clamped(Observer)[2], radius).visible_tiles

(***************************************************************************)
(* More claims about the generator                                         *)
(***************************************************************************)
StairsCells ==
    {c \in (0..(self_width - 1)) \X (0..(self_height - 1)) :
        tile_at(self_grid, c[1], c[2]).type = STAIRS_DOWN}

DoorCells ==
    {c \in (0..(self_width - 1)) \X (0..(self_height - 1)) :
        tile_at(self_grid, c[1], c[2]).type = DOOR}

\* C18: in a finished dungeon the first room of the list is the entrance and
\* player_start is its center; the last room is the exit, stairs_down is its
\* center, and the StairsDown tiles of the grid are that one cell.
C18_EntranceAndExit ==
    Generated =>
        LET n == Len(self_rooms)
        IN  /\ self_rooms[1].room_type = "entrance"
            /\ self_player_start = center(self_rooms[1])
            /\ self_rooms[n].room_type = "exit"
            /\ self_stairs_down = center(self_rooms[n])
            /\ StairsCells = {center(self_rooms[n])}

\* A finished dungeon, after a retry, with a door next to the stairs
C18_Witness ==
    /\ Generated
    /\ depth > 1
    /\ \E c \in DoorCells : <<c[1] + 1, c[2]>> \in StairsCells

\* C19: every room of the list, at every point of generate and so in the
\* output, is between room_min_size and room_max_size wide and high and
\* leaves a border of one tile inside the grid.
C19_RoomsWithinBounds ==
    \A k \in 1..Len(self_rooms) :
        LET room == self_rooms[k]
        IN  /\ room_min_size <= room.width /\ room.width <= room_max_size
            /\ room_min_size <= room.height /\ room.height <= room_max_size
            /\ 1 <= room.x
            /\ 1 <= room.y
            /\ room.x + room.width <= self_width - 1
            /\ room.y + room.height <= self_height - 1

\* A finished dungeon with a room at each end of the range of positions
C19_Witness ==
    /\ Generated
    /\ \E k \in 1..Len(self_rooms) : self_rooms[k].x = 1
    /\ \E k \in 1..Len(self_rooms) :
          self_rooms[k].x + self_rooms[k].width = self_width - 2

(***************************************************************************)
(* Claims about coordinate queries                                         *)
(***************************************************************************)
\* The cells has_line_of_sight stood on in the query last made
TrailOfQuery ==
    LET p0 == q_args[1]
        p1 == q_args[2]
        dx == Abs(p1[1] - p0[1])
        dy == Abs(p1[2] - p0[2])
    IN los_trail(self_grid, self_width, self_height, p0[1], p0[2], p1[1], p1[2],
                 dx, dy, IF p0[1] < p1[1] THEN 1 ELSE -1,
                 IF p0[2] < p1[2] THEN 1 ELSE -1, dx - dy)

\* C20 (as claimed): is_position_valid is false for every pair outside the
\* grid, and a line-of-sight walk that stands on a cell outside the grid is
\* blocked by it.
C20_OutOfRangeIsOpaque ==
    /\ (q_op = "is_position_valid" /\ q_args \notin Cells) => q_result = FALSE
    /\ (q_op = "has_line_of_sight" /\ TrailOfQuery \ Cells # {}) => q_result = FALSE

(***************************************************************************)
(* Claims about enemies                                                    *)
(***************************************************************************)
\* Another living enemy stands on cell c
OccupiedByOther(c) ==
    \E j \in 1..Len(enemies) :
        j # e_self /\ enemies[j].alive /\ enemies[j].x = c[1] /\ enemies[j].y = c[2]

\* C17 (as claimed): the mask an enemy builds is true at a cell exactly when
\* the tile there is walkable and no other living enemy stands on it.
C17_MaskIsWalkableAndFree ==
    (e_pc = "planned" /\ e_walkable # <<>>) =>
        \A c \in Cells :
            mask_at(e_walkable, c) <=>
                (is_walkable(tile_at(self_grid, c[1], c[2])) /\ ~OccupiedByOther(c))

(***************************************************************************)
(* Claims about tile.py                                                    *)
(***************************************************************************)
\* C21: is_walkable is true exactly for Floor, Door, StairsDown and StairsUp,
\* and is_transparent exactly for every kind other than Wall; so every
\* walkable tile is transparent; and a tile built with the default arguments
\* is a Wall, neither walkable nor transparent, not explored, not visible.
C21_TilePredicates ==
    /\ q_op = "is_walkable" =>
          (q_result <=> q_args.type \in {FLOOR, DOOR, STAIRS_DOWN, STAIRS_UP})
    /\ q_op = "is_transparent" => (q_result <=> q_args.type # WALL)
    /\ \A k \in TileKinds : is_walkable(Tile(k)) => is_transparent(Tile(k))
    /\ q_op = "Tile" =>
          /\ q_args.type = WALL
          /\ ~is_walkable(q_args) /\ ~is_transparent(q_args)
          /\ ~q_args.explored /\ ~q_args.visible

\* A Door was asked whether it is walkable, and a tile was built afterwards
C21_Witness ==
    /\ q_op = "is_walkable" /\ q_args.type = DOOR /\ q_result
    /\ \E x \in 0..(self_width - 1) : tile_at(self_grid, x, 0) = DefaultTile

(***************************************************************************)
(* Claims about the order in which astar expands nodes                     *)
(***************************************************************************)
\* The position of node n in the order of insertion
InsertionIndex(pushed, n) == CHOOSE i \in 1..Len(pushed) : pushed[i] = n

\* C27 (as claimed): whenever heappop returns an entry, no other entry of the
\* heap with the same f-score was inserted before it.
C27_TiesByInsertionOrder ==
    Returned =>
        \A k \in 1..Len(a_result.pops) :
            LET pop == a_result.pops[k]
            IN \A o \in pop.open_set :
                  o[1] = pop.entry[1] =>
                     InsertionIndex(a_result.pushed, pop.entry[2])
                        <= InsertionIndex(a_result.pushed, o[2])

(***************************************************************************)
(* Claims about ensure_connectivity                                        *)
(***************************************************************************)
ConnectedRooms(rs) == {k \in 1..Len(rs) : rs[k].connected}

UnconnectedRooms(rs) == {k \in 1..Len(rs) : ~rs[k].connected}

\* This step is an iteration of the while loop of ensure_connectivity
RepairIteration == repair_connections' = repair_connections + 1

\* C23: each iteration of the repair loop carves a corridor between a
\* connected and an unconnected room whose centers are as close as those of
\* any connected x unconnected pair, and marks exactly that one unconnected
\* room as connected.
C23_RepairConnectsClosestPair ==
    [][RepairIteration =>
        \E j \in UnconnectedRooms(self_rooms) :
            /\ ConnectedRooms(self_rooms') = ConnectedRooms(self_rooms) \cup {j}
            /\ \E i \in ConnectedRooms(self_rooms) :
                  /\ \A q \in ConnectedRooms(self_rooms) \X UnconnectedRooms(self_rooms) :
                        distance2(self_rooms[i], self_rooms[j])
                           <= distance2(self_rooms[q[1]], self_rooms[q[2]])
                  /\ \E hf \in BOOLEAN :
                        self_grid' = connect_grid(self_grid, self_rooms, i, j, hf)]_vars

\* The loop has made two connections and a room later in the list was
\* connected before an earlier one
C23_Witness ==
    /\ g_pc = "repair"
    /\ repair_connections >= 2
    /\ \E i, j \in 2..Len(self_rooms) :
          i < j /\ ~self_rooms[i].connected /\ self_rooms[j].connected

\* ensure_connectivity has left its while loop in the running generate call
RepairOver == g_pc \in {"extra", "entities", "done"}

\* The cells of the grid that hold a walkable tile
WalkableCells(g) ==
    {c \in (0..(self_width - 1)) \X (0..(self_height - 1)) :
        is_walkable(tile_at(g, c[1], c[2]))}

\* When the repair loop has ended it has made exactly n - 1 connections for
\* the n rooms of the list and every room is flagged connected
C22_CountAndFlags ==
    RepairOver =>
        /\ repair_connections = Len(self_rooms) - 1
        /\ ConnectedRooms(self_rooms) = 1..Len(self_rooms)

\* Before the first extra connection all room centers are mutually reachable
C22_ConnectedBeforeExtras ==
    (g_pc = "extra" /\ extra_done = 0) =>
        \A mask \in {WalkableMask(self_grid)} :
            LET centers == {center(self_rooms[k]) : k \in 1..Len(self_rooms)}
                first == center(self_rooms[1])
            IN  /\ \A c \in centers : mask_at(mask, c)
                /\ centers \subseteq ReachableFrom(mask, {first}, {first})

\* An iteration of the extra-connection loop leaves every walkable cell
\* walkable
C22_ExtrasKeepWalkable ==
    (g_pc = "extra" /\ extra_done' = extra_done + 1) =>
        WalkableCells(self_grid) \subseteq WalkableCells(self_grid')

\* C22: the repair loop of ensure_connectivity terminates; it makes exactly
\* n - 1 connections for n rooms; when it ends every room is flagged
\* connected and all room centers are mutually reachable before any extra
\* connection is carved; and the extra connections never turn a walkable
\* cell into a non-walkable one.
C22_RepairTerminatesConnected ==
    /\ [](C22_CountAndFlags /\ C22_ConnectedBeforeExtras)
    /\ [][C22_ExtrasKeepWalkable]_vars
    /\ (g_pc = "repair" ~> g_pc = "extra")

\* The loop has ended after repairing a list that holds a room of an
\* abandoned placement attempt, and the extra connection that follows carved
\* a corridor
C22_Witness ==
    /\ g_pc = "extra"
    /\ extra_done = 1
    /\ depth > 1
    /\ Len(self_rooms) > rooms_created
    /\ repair_connections = Len(self_rooms) - 1

(***************************************************************************)
(* Claims about doors and about the border of the grid                     *)
(***************************************************************************)
\* add_doors has run in the generate call that returned or is about to
LayoutFinished == g_pc \in {"entities", "done"}

\* In the finished grid every Door is off the outermost rows and columns and
\* has exactly 2 orthogonal and at least 2 diagonal Wall neighbours
C24_DoorsInPinchPoints ==
    LayoutFinished =>
        \A c \in DoorCells :
            /\ 1 <= c[1] /\ c[1] <= self_width - 2
            /\ 1 <= c[2] /\ c[2] <= self_height - 2
            /\ wall_count(self_grid, c[1], c[2], orthogonal) = 2
            /\ wall_count(self_grid, c[1], c[2], diagonal) >= 2

\* A cell that becomes a Door held a Floor tile and is not the stairs
C24_DoorsReplaceFloor ==
    \A c \in (0..(self_width - 1)) \X (0..(self_height - 1)) :
        (tile_at(self_grid', c[1], c[2]).type = DOOR
            /\ tile_at(self_grid, c[1], c[2]).type # DOOR)
        => /\ tile_at(self_grid, c[1], c[2]).type = FLOOR
           /\ c # self_stairs_down'

BorderCells ==
    {c \in (0..(self_width - 1)) \X (0..(self_height - 1)) :
        c[1] \in {0, self_width - 1} \/ c[2] \in {0, self_height - 1}}

\* C29: at every point of the construction, and so in every finished
\* dungeon, all tiles of the outermost rows and columns are Wall; hence the
\* four neighbours of every walkable tile are cells of the grid.
C29_BorderIsWall ==
    /\ \A c \in BorderCells : tile_at(self_grid, c[1], c[2]).type = WALL
    /\ \A c \in WalkableCells(self_grid) :
          \A i \in 1..Len(directions) :
             /\ 0 <= c[1] + directions[i][1] /\ c[1] + directions[i][1] < self_width
             /\ 0 <= c[2] + directions[i][2] /\ c[2] + directions[i][2] < self_height

\* A finished dungeon with a door whose corridor runs along the border from
\* the first to the last column a room may take
C29_Witness ==
    /\ Generated
    /\ DoorCells # {}
    /\ is_walkable(tile_at(self_grid, 1, 1))
    /\ is_walkable(tile_at(self_grid, self_width - 3, 1))

(***************************************************************************)
(* Claims about what compute_fov marks                                     *)
(***************************************************************************)
\* The cells of Bresenham's line from <<x0, y0>> to <<x1, y1>>, both ends
\* included, with error term err
RECURSIVE BresenhamFrom(_, _, _, _, _, _, _, _, _)
BresenhamFrom(x0, y0, x1, y1, dx, dy, sx, sy, err) ==
    IF x0 = x1 /\ y0 = y1 THEN {<<x0, y0>>}
    ELSE LET stepx == 2 * err > -dy
             stepy == 2 * err < dx
         IN {<<x0, y0>>} \cup
            BresenhamFrom(IF stepx THEN x0 + sx ELSE x0,
                          IF stepy THEN y0 + sy ELSE y0,
                          x1, y1, dx, dy, sx, sy,
                          (IF stepx THEN err - dy ELSE err) + (IF stepy THEN dx ELSE 0))

BresenhamLine(o, t) ==
    BresenhamFrom(o[1], o[2], t[1], t[2], Abs(t[1] - o[1]), Abs(t[2] - o[2]),
                  IF o[1] < t[1] THEN 1 ELSE -1, IF o[2] < t[2] THEN 1 ELSE -1,
                  Abs(t[1] - o[1]) - Abs(t[2] - o[2]))

\* No cell of the line from o to t, t itself left aside, is opaque
ClearBefore(g, o, t) ==
    \A c \in BresenhamLine(o, t) \ {t} : is_transparent(tile_at(g, c[1], c[2]))

\* C25: after compute_fov from an observer cell that holds a transparent
\* tile, a cell within the radius is marked visible (and then explored and
\* returned) exactly when no cell of the Bresenham line from the observer to
\* it, other than the cell itself, is opaque; the cell's own opacity does not
\* hide it.
C25_VisibleIffLineClear ==
    (/\ f_pc = "returned"
     /\ Observer \in Cells
     /\ is_transparent(tile_at(self_grid, player_x, player_y))) =>
        \A t \in {c \in Cells : Distance2(c) <= radius * radius} :
            /\ tile_at(self_grid, t[1], t[2]).visible
                  <=> ClearBefore(self_grid, Observer, t)
            /\ tile_at(self_grid, t[1], t[2]).visible
                  => (tile_at(self_grid, t[1], t[2]).explored /\ t \in visible_tiles)

\* A call that marks a Wall visible and leaves the cell behind it unseen
C25_Witness ==
    /\ f_pc = "returned"
    /\ Observer \in Cells
    /\ is_transparent(tile_at(self_grid, player_x, player_y))
    /\ \E t \in Cells :
          /\ tile_at(self_grid, t[1], t[2]).type = WALL
          /\ tile_at(self_grid, t[1], t[2]).visible
          /\ tile_at(self_grid, t[1], t[2]).explored
          /\ t # Observer
    /\ \E t \in Cells :
          /\ Distance2(t) <= radius * radius
          /\ ~tile_at(self_grid, t[1], t[2]).visible

\* C26 (as claimed): a compute_fov call leaves explored exactly the tiles
\* that were explored before it and the members of the set it returns, so
\* that on a floor that starts unexplored the explored tiles are the union of
\* the returned sets.
C26_ExploredIsUnionOfReturned ==
    [][fov_calls' = fov_calls + 1 =>
         ExploredCells(self_grid') = ExploredCells(self_grid) \cup visible_tiles']_vars

(***************************************************************************)
(* Claims about Enemy.follow_path                                          *)
(***************************************************************************)
\* The path follow_path is called with when enemy number i is updated: the
\* one it holds, or the one it has just planned
PathToFollow(i) ==
    IF enemies[i].path # <<>> THEN enemies[i].path
    ELSE calculate_path_to_player(self_grid, enemies, i, player).path

\* Cell c is inside the grid, holds a Floor tile and no living enemy other
\* than number i stands on it
FreeFloor(i, c) ==
    /\ 0 <= c[1] /\ c[1] < GRID_WIDTH /\ 0 <= c[2] /\ c[2] < GRID_HEIGHT
    /\ tile_at(self_grid, c[1], c[2]).type = FLOOR
    /\ \A j \in 1..Len(enemies) :
          (j # i /\ enemies[j].alive) => <<enemies[j].x, enemies[j].y>> # c

\* What an update of enemy number i with a non-empty path to follow does
FollowedOrDiscarded(i, path) ==
    /\ IF FreeFloor(i, path[1])
       THEN /\ <<enemies'[i].x, enemies'[i].y>> = path[1]
            /\ enemies'[i].path = Tail(path)
       ELSE /\ <<enemies'[i].x, enemies'[i].y>> = <<enemies[i].x, enemies[i].y>>
            /\ enemies'[i].path = <<>>
    /\ \A j \in 1..Len(enemies) :
          (j # i /\ enemies[j].alive) =>
             (<<enemies'[i].x, enemies'[i].y>> = <<enemies[j].x, enemies[j].y>>
                => <<enemies[i].x, enemies[i].y>> = <<enemies[j].x, enemies[j].y>>)
    /\ \A j \in 1..Len(enemies) : j # i => enemies'[j] = enemies[j]

\* C28: follow_path with a non-empty path moves the enemy onto the first step
\* and removes that step if the step is in bounds, a Floor tile and free of
\* other living enemies; otherwise it discards the whole path and leaves the
\* enemy where it is.  So no step takes an enemy onto a cell where another
\* living enemy stands.
C28_FollowPathMovesOrDiscards ==
    [][enemies' # enemies =>
         (PathToFollow(e_self') # <<>>
            /\ FollowedOrDiscarded(e_self', PathToFollow(e_self')))]_vars

\* An enemy found the next step of its stored path taken by another living
\* enemy and dropped the path
C28_Witness ==
    /\ e_pc = "followed"
    /\ enemies[e_self].path = <<>>
    /\ \E j \in 1..Len(enemies) :
          /\ j # e_self
          /\ enemies[j].alive
          /\ distance_to(<<enemies[j].x, enemies[j].y>>,
                         <<enemies[e_self].x, enemies[e_self].y>>) = 1
    /\ ~is_adjacent_to(<<enemies[e_self].x, enemies[e_self].y>>, player)


\* The rooms of the layout all have a position for every entity
\* place_entities draws: one tile from the edge for enemies and items, two
\* for the quest item
RoomsAdmitEntities ==
    \A k \in 1..Len(self_rooms) :
        can_place_in(self_rooms[k], 1) /\ can_place_in(self_rooms[k], 2)

\* C30 (as claimed): whatever the level, a constructor call whose layout
\* succeeded, with rooms large enough for every entity, goes on to finish:
\* entity placement returns and the dungeon keeps its rooms; it is not
\* replaced by the fallback dungeon.
C30_EveryLevelBuildsItsDungeon ==
    [][(g_pc = "entities" /\ RoomsAdmitEntities) => g_pc' = "done"]_vars

====
